---- MODULE Spec2Model ----
(***************************************************************************)
(* Model of server/modules/text_splitter.py: split_text_into_chunks, its   *)
(* recursive splitter split_by_weight and its post-pass optimize_chunks.   *)
(*                                                                         *)
(* A text is a sequence of one-character strings.  Python indices are kept *)
(* 0-based as in the source; Slice(s, a, b) is the Python slice s[a:b].    *)
(* The recursion of split_by_weight is an explicit call stack of frames,   *)
(* one frame per active call, holding that call's local variables.         *)
(***************************************************************************)
EXTENDS Integers, Sequences, FiniteSets, TLC

\* ------------------------------------------------------------------ bounds
MaxLen == 4
MaxTokens == 4

\* The characters texts are drawn from: a paragraph separator, a sentence
\* terminator, a plain letter, and a symbol without separator weight that the
\* tokenizer encodes as two tokens.
Alphabet == {"\n", ".", "a", "U"}

\* The numbers of special tokens the tokenizer may add to every encoded span
\* (none, or one such as an end-of-sequence token).
SpecialTokenCounts == {0, 1}

\* ------------------------------------------------------- weight constants
PARAGRAPH_SEPARATOR_WEIGHT == 4
SENTENCE_TERMINATOR_WEIGHT == 3
OTHER_PUNCTUATION_WEIGHT == 2
SPACE_WEIGHT == 1
NO_WEIGHT == 0

VARIABLES
    text,            \* argument text
    max_tokens,      \* argument max_tokens (positive)
    optimize,        \* argument optimize
    special,         \* number of special tokens the tokenizer adds to a span
    pc,              \* "split", "split_done", "optimize", "done", "error"
    stack,           \* active split_by_weight calls, innermost last
    initial_chunks,  \* value returned by split_by_weight(text, 4, 0)
    chunks,          \* optimize_chunks: its (mutated) argument list
    optimized,       \* optimize_chunks: the list being built
    opt_i,           \* optimize_chunks: loop index i
    result,          \* list returned to the caller
    error            \* <<>> or <<the ValueError raised by split_by_weight>>

vars == <<text, max_tokens, optimize, special, pc, stack, initial_chunks,
          chunks, optimized, opt_i, result, error>>

\* ----------------------------------------------------------------- helpers
Min(a, b) == IF a <= b THEN a ELSE b

\* Python s[a:b] for 0 <= a <= b <= len(s)
Slice(s, a, b) == SubSeq(s, a + 1, b)

RECURSIVE Join(_)
\* "".join(list of segments)
Join(segs) == IF segs = <<>> THEN <<>> ELSE Head(segs) \o Join(Tail(segs))

RECURSIVE ConcatTexts(_)
\* concatenation of the texts of a chunk list, in order
ConcatTexts(cs) == IF cs = <<>> THEN <<>> ELSE Head(cs).text \o ConcatTexts(Tail(cs))

\* str.strip() == "" : every character is whitespace
IsBlank(s) == \A k \in 1..Len(s) : s[k] \in {"\n", " "}

\* all texts of length 0..n over Alphabet
TextsUpTo(n) == UNION {[1..k -> Alphabet] : k \in 0..n}

\* -------------------------------------------------------------- classifier
get_weight(char) ==
    IF char \in {"\n", "\r"} THEN PARAGRAPH_SEPARATOR_WEIGHT
    ELSE IF char \in {".", "!", "?"} THEN SENTENCE_TERMINATOR_WEIGHT
    ELSE IF char \in {",", ";", ":"} THEN OTHER_PUNCTUATION_WEIGHT
    ELSE IF char = " " THEN SPACE_WEIGHT
    ELSE NO_WEIGHT

\* ------------------------------------------------------------ token counter
\* The tokenizer is an argument of split_text_into_chunks.  It is taken to
\* encode a span as `special` special tokens (add_special_tokens=True) plus
\* the tokens of each character, truncated to max_length.
\* Tokens the tokenizer produces for one character.
CharTokens(char) == IF char = "U" THEN 2 ELSE 1

RECURSIVE BodyTokens(_)
BodyTokens(segment) ==
    IF segment = <<>> THEN 0
    ELSE CharTokens(Head(segment)) + BodyTokens(Tail(segment))

\* len(tokenizer.encode(segment, add_special_tokens=True, truncation=True,
\*                      max_length=max_tokens + 1))
get_token_count(segment) == Min(special + BodyTokens(segment), max_tokens + 1)

\* ---------------------------------------------------------------- splitter
Chunk(start, txt, tokens) == [start |-> start, text |-> txt, tokens |-> tokens]

\* the locals of a fresh split_by_weight(text, weight, start_idx) call
NewFrame(t, weight, start_idx) ==
    [text |-> t, weight |-> weight, start_idx |-> start_idx,
     chunks |-> <<>>, current_pos |-> 0, current_chunk |-> <<>>,
     current_chunk_tokens |-> 0, current_chunk_start |-> start_idx,
     i |-> 0, phase |-> "scan"]

Top == stack[Len(stack)]

ReplaceTop(f) == [stack EXCEPT ![Len(stack)] = f]

\* Fits with the budget test off by one
Fits_OffByOne(current_chunk_tokens, segment_tokens) ==
    current_chunk_tokens + segment_tokens <= max_tokens + 1

\* current_chunk_tokens + segment_tokens <= max_tokens
Fits(current_chunk_tokens, segment_tokens) ==
    current_chunk_tokens + segment_tokens <= max_tokens

\* CanDescend giving up one tier early, at the space tier
CanDescend_StopsAtSpace(weight) == weight > SPACE_WEIGHT

\* CanDescend still recursing at tier None
CanDescend_BelowNone(weight) == weight >= NO_WEIGHT

\* the unit alone exceeds the budget and a finer tier exists
CanDescend(weight) == weight > NO_WEIGHT

\* tier of the recursive call
NextTier(weight) == weight - 1

\* the pending chunk (current_chunk_start, "".join(current_chunk), tokens)
PendingChunk(f) ==
    Chunk(f.current_chunk_start, Join(f.current_chunk), f.current_chunk_tokens)

\* lines 168-175: finalize the pending chunk inside the scan loop
FinalizeInScan(f) ==
    IF f.current_chunk # <<>>
    THEN [f EXCEPT !.chunks = Append(@, PendingChunk(f)),
                   !.current_chunk_start = @ + Len(Join(f.current_chunk)),
                   !.current_chunk = <<>>,
                   !.current_chunk_tokens = 0]
    ELSE f

\* lines 206-211: finalize the pending chunk before the trailing text;
\* current_chunk and current_chunk_tokens are left as they are
FinalizeAtEnd(f) ==
    IF f.current_chunk # <<>>
    THEN [f EXCEPT !.chunks = Append(@, PendingChunk(f)),
                   !.current_chunk_start = @ + Len(Join(f.current_chunk))]
    ELSE f

\* lines 227-229: add the final chunk if it exists
FinalChunks(f) ==
    IF f.current_chunk # <<>> THEN Append(f.chunks, PendingChunk(f)) ELSE f.chunks

\* the ValueError of lines 190 and 221, with the tier and unit it was raised
\* for and the number of split_by_weight calls active at the raise
ValueError(site, f, unit) ==
    <<[site |-> site, weight |-> f.weight, unit |-> unit, depth |-> Len(stack)]>>

Raise(err) ==
    /\ pc' = "error"
    /\ error' = err
    /\ stack' = <<>>
    /\ UNCHANGED <<initial_chunks, chunks, optimized, opt_i, result>>

\* One iteration of the while loop of split_by_weight (lines 150-195) in the
\* innermost active call.
ScanChar ==
    /\ pc = "split"
    /\ stack # <<>>
    /\ Top.phase = "scan"
    /\ Top.i < Len(Top.text)
    /\ UNCHANGED <<text, max_tokens, optimize, special>>
    /\ LET f == Top
           char == f.text[f.i + 1]
           char_weight == get_weight(char)
           segment == Slice(f.text, f.current_pos, f.i + 1)
           segment_tokens == get_token_count(segment)
           g == FinalizeInScan(f)
       IN  IF ~(char_weight >= f.weight)
           THEN /\ stack' = ReplaceTop([f EXCEPT !.i = @ + 1])
                /\ UNCHANGED <<pc, error, initial_chunks, chunks, optimized, opt_i, result>>
           ELSE IF Fits(f.current_chunk_tokens, segment_tokens)
           THEN /\ stack' = ReplaceTop(
                       [f EXCEPT !.current_chunk = Append(@, segment),
                                 !.current_chunk_tokens = @ + segment_tokens,
                                 !.current_pos = f.i + 1,
                                 !.i = @ + 1])
                /\ UNCHANGED <<pc, error, initial_chunks, chunks, optimized, opt_i, result>>
           ELSE IF segment_tokens > max_tokens /\ CanDescend(f.weight)
           THEN /\ stack' = Append(ReplaceTop([g EXCEPT !.phase = "call_segment"]),
                                   NewFrame(segment, NextTier(f.weight),
                                            g.current_chunk_start))
                /\ UNCHANGED <<pc, error, initial_chunks, chunks, optimized, opt_i, result>>
           ELSE IF segment_tokens <= max_tokens
           THEN /\ stack' = ReplaceTop(
                       [g EXCEPT !.current_chunk = Append(@, segment),
                                 !.current_chunk_tokens = segment_tokens,
                                 !.current_pos = f.i + 1,
                                 !.i = @ + 1])
                /\ UNCHANGED <<pc, error, initial_chunks, chunks, optimized, opt_i, result>>
           ELSE Raise(ValueError("segment", f, segment))

\* Lines 197-224 of the innermost active call: the text after the last
\* separator of the tier.
HandleRemaining ==
    /\ pc = "split"
    /\ stack # <<>>
    /\ Top.phase = "scan"
    /\ Top.i = Len(Top.text)
    /\ UNCHANGED <<text, max_tokens, optimize, special>>
    /\ LET f == Top
           remaining == Slice(f.text, f.current_pos, Len(f.text))
           remaining_tokens == get_token_count(remaining)
           g == FinalizeAtEnd(f)
       IN  IF ~(f.current_pos < Len(f.text))
           THEN /\ stack' = ReplaceTop([f EXCEPT !.phase = "final"])
                /\ UNCHANGED <<pc, error, initial_chunks, chunks, optimized, opt_i, result>>
           ELSE IF Fits(f.current_chunk_tokens, remaining_tokens)
           THEN /\ stack' = ReplaceTop(
                       [f EXCEPT !.current_chunk = Append(@, remaining),
                                 !.current_chunk_tokens = @ + remaining_tokens,
                                 !.phase = "final"])
                /\ UNCHANGED <<pc, error, initial_chunks, chunks, optimized, opt_i, result>>
           ELSE IF remaining_tokens > max_tokens /\ CanDescend(f.weight)
           THEN /\ stack' = Append(ReplaceTop([g EXCEPT !.phase = "call_remaining"]),
                                   NewFrame(remaining, NextTier(f.weight),
                                            g.current_chunk_start))
                /\ UNCHANGED <<pc, error, initial_chunks, chunks, optimized, opt_i, result>>
           ELSE IF remaining_tokens <= max_tokens
           THEN /\ stack' = ReplaceTop(
                       [g EXCEPT !.chunks = Append(@, Chunk(g.current_chunk_start,
                                                            remaining, remaining_tokens)),
                                 !.phase = "final"])
                /\ UNCHANGED <<pc, error, initial_chunks, chunks, optimized, opt_i, result>>
           ELSE Raise(ValueError("remaining", f, remaining))

\* The caller's continuation after a recursive call returned sub_chunks.
Resume(caller, sub_chunks) ==
    IF caller.phase = "call_segment"
    THEN \* lines 182-184, then i += 1 (line 195)
         [caller EXCEPT !.chunks = @ \o sub_chunks,
                        !.current_chunk_start =
                              @ + (caller.i + 1 - caller.current_pos),
                        !.current_pos = caller.i + 1,
                        !.i = @ + 1,
                        !.phase = "scan"]
    ELSE \* line 217
         [caller EXCEPT !.chunks = @ \o sub_chunks, !.phase = "final"]

\* Lines 226-231: the innermost call adds its final chunk and returns; the
\* outermost call returns to split_text_into_chunks (line 234).
ReturnChunks ==
    /\ pc = "split"
    /\ stack # <<>>
    /\ Top.phase = "final"
    /\ UNCHANGED <<text, max_tokens, optimize, special, error, chunks,
                   optimized, opt_i, result>>
    /\ LET returned == FinalChunks(Top)
           n == Len(stack)
       IN  IF n = 1
           THEN /\ stack' = <<>>
                /\ initial_chunks' = returned
                /\ pc' = "split_done"
           ELSE /\ stack' = Append(SubSeq(stack, 1, n - 2),
                                   Resume(stack[n - 1], returned))
                /\ UNCHANGED <<pc, initial_chunks>>

\* line 240: optimize = False returns the splitter's list
ReturnInitial ==
    /\ pc = "split_done"
    /\ ~optimize
    /\ result' = initial_chunks
    /\ pc' = "done"
    /\ UNCHANGED <<text, max_tokens, optimize, special, stack, initial_chunks,
                   chunks, optimized, opt_i, error>>

\* --------------------------------------------------------------- optimizer
\* best_split_idx = None, best_split_weight = -1 (lines 82-83)
NoSplit == [found |-> FALSE, idx |-> 0, weight |-> -1]

\* Improves accepting an equal weight further left
Improves_OrEqual(char_weight, best_split_weight) == char_weight >= best_split_weight

\* line 91: char_weight > best_split_weight
Improves(char_weight, best_split_weight) == char_weight > best_split_weight

\* lines 105-108: both potential chunks are within the budget
BothValid(potential_first, potential_next) ==
    /\ get_token_count(potential_first) <= max_tokens
    /\ get_token_count(potential_next) <= max_tokens

\* first value of j in range(len(current_text) - 1, 0, -1)
ScanFrom(current_text) == Len(current_text) - 1

\* last value of j in range(len(current_text) - 1, 0, -1)
ScanTo == 1

RECURSIVE ScanSplit(_, _, _, _)
\* lines 85-110: the for loop from index j down to ScanTo, starting with best
ScanSplit(current_text, next_text, j, best) ==
    IF j < ScanTo THEN best
    ELSE LET char_weight == get_weight(current_text[j + 1])
             split_pos == j + 1
             potential_first == Slice(current_text, 0, split_pos)
             potential_next ==
                 Slice(current_text, split_pos, Len(current_text)) \o next_text
             adopt == /\ Improves(char_weight, best.weight)
                      /\ split_pos <= Len(current_text)
                      /\ BothValid(potential_first, potential_next)
         IN  ScanSplit(current_text, next_text, j - 1,
                       IF adopt
                       THEN [found |-> TRUE, idx |-> split_pos, weight |-> char_weight]
                       ELSE best)

BestSplit(current_text, next_text) ==
    ScanSplit(current_text, next_text, ScanFrom(current_text), NoSplit)

\* line 114: the part of current kept in the finalized chunk
FirstPart(current_text, best_split_idx) == Slice(current_text, 0, best_split_idx)

\* SecondPart forgetting the suffix cut off current
SecondPart_DropsSuffix(current_text, best_split_idx, next_text) == next_text

\* line 118: the part moved in front of next
SecondPart(current_text, best_split_idx, next_text) ==
    Slice(current_text, best_split_idx, Len(current_text)) \o next_text

\* lines 236-238 and 61-65: optimize = True enters optimize_chunks
OptimizeStart ==
    /\ pc = "split_done"
    /\ optimize
    /\ UNCHANGED <<text, max_tokens, optimize, special, stack, initial_chunks, error>>
    /\ IF Len(initial_chunks) <= 1
       THEN /\ result' = initial_chunks
            /\ pc' = "done"
            /\ UNCHANGED <<chunks, optimized, opt_i>>
       ELSE /\ chunks' = initial_chunks
            /\ optimized' = <<>>
            /\ opt_i' = 0
            /\ pc' = "optimize"
            /\ UNCHANGED result

\* lines 67-128: one iteration of the while loop over adjacent pairs
OptimizePair ==
    /\ pc = "optimize"
    /\ opt_i < Len(chunks) - 1
    /\ UNCHANGED <<text, max_tokens, optimize, special, stack, initial_chunks,
                   error, result, pc>>
    /\ LET current == chunks[opt_i + 1]
           next == chunks[opt_i + 2]
           combined_text == current.text \o next.text
           combined_tokens == get_token_count(combined_text)
           best == BestSplit(current.text, next.text)
           first_part == FirstPart(current.text, best.idx)
           second_part == SecondPart(current.text, best.idx, next.text)
       IN  IF combined_tokens <= max_tokens
           THEN /\ optimized' = Append(optimized,
                                   Chunk(current.start, combined_text, combined_tokens))
                /\ opt_i' = opt_i + 2
                /\ UNCHANGED chunks
           ELSE IF best.found
           THEN /\ optimized' = Append(optimized,
                                   Chunk(current.start, first_part,
                                         get_token_count(first_part)))
                /\ chunks' = [chunks EXCEPT ![opt_i + 2] =
                                   Chunk(current.start + best.idx, second_part,
                                         get_token_count(second_part))]
                /\ opt_i' = opt_i + 1
           ELSE /\ optimized' = Append(optimized, current)
                /\ opt_i' = opt_i + 1
                /\ UNCHANGED chunks

\* lines 130-132: the last chunk, if it was not merged
WithLast(opt, cs, i) == IF i < Len(cs) THEN Append(opt, cs[i + 1]) ELSE opt

\* lines 134-135: drop a last chunk that is empty after strip()
DropBlankLast(opt) ==
    IF Len(opt) # 0 /\ IsBlank(opt[Len(opt)].text)
    THEN SubSeq(opt, 1, Len(opt) - 1)
    ELSE opt

\* lines 130-137: after the loop
OptimizeFinish ==
    /\ pc = "optimize"
    /\ ~(opt_i < Len(chunks) - 1)
    /\ optimized' = DropBlankLast(WithLast(optimized, chunks, opt_i))
    /\ result' = optimized'
    /\ pc' = "done"
    /\ UNCHANGED <<text, max_tokens, optimize, special, stack, initial_chunks,
                   chunks, opt_i, error>>

Init ==
    /\ text \in TextsUpTo(MaxLen)
    /\ max_tokens \in 1..MaxTokens
    /\ optimize \in BOOLEAN
    /\ special \in SpecialTokenCounts
    /\ pc = "split"
    /\ stack = <<NewFrame(text, PARAGRAPH_SEPARATOR_WEIGHT, 0)>>
    /\ initial_chunks = <<>>
    /\ chunks = <<>>
    /\ optimized = <<>>
    /\ opt_i = 0
    /\ result = <<>>
    /\ error = <<>>

Next ==
    \/ ScanChar
    \/ HandleRemaining
    \/ ReturnChunks
    \/ ReturnInitial
    \/ OptimizeStart
    \/ OptimizePair
    \/ OptimizeFinish

Spec == Init /\ [][Next]_vars

\* every step is enabled until the call has returned or raised
LiveSpec == Spec /\ WF_vars(Next)

\* ------------------------------------------------------------------ claims
Returned == pc = "done"

\* C1: every chunk returned, with optimize true or false, has
\* token_count <= max_tokens.
C1_TokenCountWithinBudget ==
    Returned => \A k \in 1..Len(result) : result[k].tokens <= max_tokens

\* C1 witness: a call returned several chunks, one of them filled to the budget
C1_Witness ==
    /\ Returned
    /\ Len(result) >= 2
    /\ \E k \in 1..Len(result) : result[k].tokens = max_tokens

\* C2: with optimize = false, concatenating the returned chunk texts in order
\* gives back the original text exactly.
C2_LosslessWithoutOptimize ==
    (Returned /\ ~optimize) => ConcatTexts(result) = text

\* C3: the returned chunks start at offset 0, are contiguous and their
\* start offsets increase strictly.
C3_ContiguousOffsets ==
    Returned =>
        /\ Len(result) >= 1 => result[1].start = 0
        /\ \A k \in 1..(Len(result) - 1) :
               /\ result[k + 1].start = result[k].start + Len(result[k].text)
               /\ result[k + 1].start > result[k].start

\* C4: the token_count of every returned chunk is the token counter's result
\* on that chunk's text.
C4_TokenCountIsCounterResult ==
    Returned =>
        \A k \in 1..Len(result) : result[k].tokens = get_token_count(result[k].text)

\* C5: a text whose whole token count is within the budget is returned as
\* exactly one chunk at offset 0 holding the entire text.
C5_FittingTextIsOneChunk ==
    (Returned /\ get_token_count(text) <= max_tokens) =>
        /\ Len(result) = 1
        /\ result[1].start = 0
        /\ result[1].text = text

\* text = first paragraph, blank line, second paragraph; no paragraph
\* separator inside or after the paragraphs; each paragraph is below the
\* budget, the whole text above it, and the first paragraph with its blank
\* line is within it (otherwise the first chunk the claim names could not be
\* returned at all)
TwoParagraphs(p1, p2) ==
    /\ p1 # <<>>
    /\ p2 # <<>>
    /\ \A k \in 1..Len(p1) : get_weight(p1[k]) # PARAGRAPH_SEPARATOR_WEIGHT
    /\ \A k \in 1..Len(p2) : get_weight(p2[k]) # PARAGRAPH_SEPARATOR_WEIGHT
    /\ text = p1 \o <<"\n", "\n">> \o p2
    /\ get_token_count(p1) < max_tokens
    /\ get_token_count(p2) < max_tokens
    /\ get_token_count(text) > max_tokens
    /\ get_token_count(p1 \o <<"\n", "\n">>) <= max_tokens

\* C6: two paragraphs that each fit but do not fit together are returned as
\* exactly two chunks, split right after the blank line.
C6_TwoParagraphsTwoChunks ==
    Returned =>
        \A n \in 1..Len(text) :
            LET p1 == Slice(text, 0, n)
                p2 == Slice(text, Min(n + 2, Len(text)), Len(text))
            IN  (n + 2 < Len(text) /\ TwoParagraphs(p1, p2)) =>
                    /\ Len(result) = 2
                    /\ result[1].start = 0
                    /\ result[1].text = p1 \o <<"\n", "\n">>
                    /\ result[2].start = n + 2
                    /\ result[2].text = p2

SingleCharOverBudget == Len(text) = 1 /\ get_token_count(text) > max_tokens

Terminated == pc \in {"done", "error"}

\* C7: a call on a single character that exceeds the budget ends with the
\* ValueError, raised at tier None with all five calls active, and returns
\* nothing; the error is only ever raised for a single character at tier None
\* that exceeds the budget.
C7_UnsplittableRaises ==
    /\ error # <<>> =>
            /\ pc = "error"
            /\ result = <<>>
            /\ error[1].weight = NO_WEIGHT
            /\ error[1].depth = 5
            /\ Len(error[1].unit) = 1
            /\ get_token_count(error[1].unit) > max_tokens
    /\ SingleCharOverBudget => result = <<>> /\ ~Returned
    /\ (SingleCharOverBudget /\ Terminated) => (pc = "error" /\ error # <<>>)

\* C7 witness: the call on a single over-budget character has raised
C7_Witness ==
    /\ SingleCharOverBudget
    /\ pc = "error"
    /\ error # <<>>
    /\ error[1].unit = text

ValidAt(cur, nxt, p) ==
    /\ get_token_count(Slice(cur.text, 0, p)) <= max_tokens
    /\ get_token_count(Slice(cur.text, p, Len(cur.text)) \o nxt.text) <= max_tokens

ValidPositions(cur, nxt, positions) == {p \in positions : ValidAt(cur, nxt, p)}

HighestValid(cur, nxt, positions) ==
    LET V == ValidPositions(cur, nxt, positions)
        top == {p \in V : \A q \in V : get_weight(cur.text[q]) <= get_weight(cur.text[p])}
    IN  CHOOSE p \in top : \A q \in top : q <= p

RedistributionRule(first) ==
    (/\ pc = "optimize"
     /\ opt_i < Len(chunks) - 1
     /\ get_token_count(chunks[opt_i + 1].text \o chunks[opt_i + 2].text) > max_tokens)
    => LET cur == chunks[opt_i + 1]
           nxt == chunks[opt_i + 2]
           P == first..Len(cur.text)
       IN  IF ValidPositions(cur, nxt, P) = {}
           THEN /\ optimized' = Append(optimized, cur)
                /\ chunks' = chunks
           ELSE LET p == HighestValid(cur, nxt, P)
                IN  /\ Len(optimized') = Len(optimized) + 1
                    /\ optimized'[Len(optimized')].text = Slice(cur.text, 0, p)
                    /\ chunks'[opt_i + 2].text =
                           Slice(cur.text, p, Len(cur.text)) \o nxt.text

TiersDescend ==
    \A k \in 1..Len(stack) : stack[k].weight = PARAGRAPH_SEPARATOR_WEIGHT - (k - 1)

\* at tier None the unit about to be examined is the single character at i
SingleCharUnits ==
    \A k \in 1..Len(stack) :
        (stack[k].weight = NO_WEIGHT /\ stack[k].phase = "scan") =>
            stack[k].current_pos = stack[k].i

\* C9: the splitter terminates by returning or raising; nested calls descend
\* one tier each, never below tier None, so at most 5 are active, and at tier
\* None every unit is one character.
C9_TerminatesWithinFiveTiers ==
    /\ [](/\ Len(stack) <= 5
          /\ TiersDescend
          /\ \A k \in 1..Len(stack) : stack[k].weight >= NO_WEIGHT
          /\ SingleCharUnits)
    /\ <>Terminated

\* C9 witness: five calls are active and the tier-None call has emitted units
C9_Witness ==
    /\ Len(stack) = 5
    /\ Top.weight = NO_WEIGHT
    /\ Top.i >= 2
    /\ Top.chunks # <<>>

\* C10: the optimizer's output texts concatenate to the input texts, except
\* that with two or more input chunks a final whitespace-only output chunk may
\* be missing; the output has no more chunks than the input; zero or one
\* chunk is returned unchanged.
C10_OptimizerPreservesText ==
    (Returned /\ optimize) =>
        IF Len(initial_chunks) <= 1
        THEN result = initial_chunks
        ELSE /\ Len(result) <= Len(initial_chunks)
             /\ LET all == ConcatTexts(initial_chunks)
                    out == ConcatTexts(result)
                IN  /\ Len(out) <= Len(all)
                    /\ out = Slice(all, 0, Len(out))
                    /\ IsBlank(Slice(all, Len(out), Len(all)))

\* C10 witness: the optimizer returned fewer chunks and dropped a blank tail
C10_Witness ==
    /\ Returned
    /\ optimize
    /\ Len(initial_chunks) >= 2
    /\ Len(result) < Len(initial_chunks)
    /\ ConcatTexts(result) # ConcatTexts(initial_chunks)


====
